---------------------------- MODULE Spec2Model ----------------------------
(***************************************************************************)
(* Model of .github/script/release_sync.py: the version rewriting          *)
(* functions (split_version_str, bump_minor_semver, the package.json and   *)
(* pom.xml passes) and the orchestration in main().                        *)
(*                                                                         *)
(* A Python str is a sequence of one-character strings.  An Optional       *)
(* value is a sequence too: <<>> is None and <<x>> is the value x.         *)
(***************************************************************************)
EXTENDS Integers, Sequences, FiniteSets, TLC

(***************************************************************************)
(* Characters and string literals                                          *)
(***************************************************************************)
Digits == {"0", "1", "2", "3", "4", "5", "6", "7", "8", "9"}

IsDigit(c) == c \in Digits

\* str.lower() on one character, over the letters the model's strings use.
LowerChar(c) ==
    CASE c = "S" -> "s" [] c = "N" -> "n" [] c = "A" -> "a" [] c = "P" -> "p"
      [] c = "H" -> "h" [] c = "O" -> "o" [] c = "T" -> "t" [] c = "B" -> "b"
      [] c = "E" -> "e" [] OTHER -> c

LowerStr(s) == [i \in 1..Len(s) |-> LowerChar(s[i])]

S_snapshot == <<"s", "n", "a", "p", "s", "h", "o", "t">>
S_dash_snapshot == <<"-", "s", "n", "a", "p", "s", "h", "o", "t">>
S_dash_SNAPSHOT == <<"-", "S", "N", "A", "P", "S", "H", "O", "T">>
S_release_slash == <<"r", "e", "l", "e", "a", "s", "e", "/">>
S_hotfix_slash == <<"h", "o", "t", "f", "i", "x", "/">>
S_unknown_prefix == <<"u", "n", "k", "n", "o", "w", "n", "-", "p", "r", "e", "f", "i", "x", "-">>
S_unknown == <<"u", "n", "k", "n", "o", "w", "n", "-">>

None == <<>>
Some(x) == <<x>>
IsNone(o) == Len(o) = 0

(***************************************************************************)
(* Regular-expression helpers                                              *)
(***************************************************************************)
\* Last index of the maximal run of digits that starts at i (i-1: no digit).
RECURSIVE DigitRunEnd(_, _)
DigitRunEnd(s, i) ==
    IF i <= Len(s) /\ IsDigit(s[i]) THEN DigitRunEnd(s, i + 1) ELSE i - 1

\* \d+\.\d+\.\d+ tried at position i: the index of the match's last
\* character, 0 when there is no match at i.  \d+ is greedy and is followed
\* by a character that is no digit, so each run is the maximal one.  a, b
\* and c are the ends of the three runs of digits.
SemverThird(b, c) == IF c < b + 2 THEN 0 ELSE c

SemverSecond(s, a, b) ==
    IF b < a + 2 \/ b + 1 > Len(s) \/ s[b + 1] # "." THEN 0
    ELSE SemverThird(b, DigitRunEnd(s, b + 2))

SemverFirst(s, i, a) ==
    IF a < i \/ a + 1 > Len(s) \/ s[a + 1] # "." THEN 0
    ELSE SemverSecond(s, a, DigitRunEnd(s, a + 2))

SemverMatchEnd(s, i) == SemverFirst(s, i, DigitRunEnd(s, i))

\* re.search(r'snapshot', s, re.IGNORECASE)
HasAt(s, i, w) ==
    /\ i >= 1
    /\ i + Len(w) - 1 <= Len(s)
    /\ LowerStr(SubSeq(s, i, i + Len(w) - 1)) = w

ContainsSnapshot(s) == \E i \in 1..Len(s) : HasAt(s, i, S_snapshot)

\* re.sub(r'[-]?snapshot', '', s, flags=re.IGNORECASE), scanning from i.
RECURSIVE RemoveSnapshotFrom(_, _)
RemoveSnapshotFrom(s, i) ==
    IF i > Len(s) THEN <<>>
    ELSE IF s[i] = "-" /\ HasAt(s, i + 1, S_snapshot)
         THEN RemoveSnapshotFrom(s, i + 9)
    ELSE IF HasAt(s, i, S_snapshot)
         THEN RemoveSnapshotFrom(s, i + 8)
    ELSE <<s[i]>> \o RemoveSnapshotFrom(s, i + 1)

RemoveSnapshot(s) == RemoveSnapshotFrom(s, 1)

\* re.sub(r'(?i)snapshot', repl, s), scanning from i.
RECURSIVE ReplaceSnapshotFrom(_, _, _)
ReplaceSnapshotFrom(s, i, repl) ==
    IF i > Len(s) THEN <<>>
    ELSE IF HasAt(s, i, S_snapshot)
         THEN repl \o ReplaceSnapshotFrom(s, i + 8, repl)
    ELSE <<s[i]>> \o ReplaceSnapshotFrom(s, i + 1, repl)

ReplaceSnapshot(s, repl) == ReplaceSnapshotFrom(s, 1, repl)

\* str.strip() over the whitespace the model's strings use (the blank).
RECURSIVE StripLeft(_)
StripLeft(s) ==
    IF Len(s) > 0 /\ s[1] = " " THEN StripLeft(Tail(s)) ELSE s

RECURSIVE StripRight(_)
StripRight(s) ==
    IF Len(s) > 0 /\ s[Len(s)] = " "
    THEN StripRight(SubSeq(s, 1, Len(s) - 1)) ELSE s

StrStrip(s) == StripRight(StripLeft(s))

(***************************************************************************)
(* int() and str() on decimal numerals                                     *)
(***************************************************************************)
DigitVal(c) ==
    CASE c = "0" -> 0 [] c = "1" -> 1 [] c = "2" -> 2 [] c = "3" -> 3
      [] c = "4" -> 4 [] c = "5" -> 5 [] c = "6" -> 6 [] c = "7" -> 7
      [] c = "8" -> 8 [] c = "9" -> 9

DigitChar(d) ==
    CASE d = 0 -> "0" [] d = 1 -> "1" [] d = 2 -> "2" [] d = 3 -> "3"
      [] d = 4 -> "4" [] d = 5 -> "5" [] d = 6 -> "6" [] d = 7 -> "7"
      [] d = 8 -> "8" [] d = 9 -> "9"

RECURSIVE ParseInt(_)
ParseInt(s) ==
    IF Len(s) = 0 THEN 0
    ELSE 10 * ParseInt(SubSeq(s, 1, Len(s) - 1)) + DigitVal(s[Len(s)])

RECURSIVE FormatInt(_)
FormatInt(n) ==
    IF n < 10 THEN <<DigitChar(n)>>
    ELSE FormatInt(n \div 10) \o <<DigitChar(n % 10)>>

\* semver.split('.') of a digits.digits.digits string, as three integers;
\* a and b are the ends of the first two runs of digits.
SemverPartsAt(semver, a, b) ==
    <<ParseInt(SubSeq(semver, 1, a)),
      ParseInt(SubSeq(semver, a + 2, b)),
      ParseInt(SubSeq(semver, b + 2, Len(semver)))>>

SemverPartsFrom(semver, a) == SemverPartsAt(semver, a, DigitRunEnd(semver, a + 2))

SemverParts(semver) == SemverPartsFrom(semver, DigitRunEnd(semver, 1))

FormatSemver(major, minor, patch) ==
    FormatInt(major) \o <<".">> \o FormatInt(minor) \o <<".">> \o FormatInt(patch)

(***************************************************************************)
(* Utilities of the script                                                 *)
(***************************************************************************)
\* BranchVersion without the $ of the pattern.
BranchVersion_Unanchored(branch, n, e) ==
    IF /\ Len(branch) > n
       /\ SubSeq(branch, 1, n) = S_release_slash
       /\ e > 0
    THEN Some(SubSeq(branch, n + 1, e))
    ELSE None

\* re.match(r"^release\/(?P<ver>\d+\.\d+\.\d+)$", branch): $ matches at the
\* end of the string and also just before a newline that ends the string.
\* e is where \d+\.\d+\.\d+ ends when tried right after "release/".
BranchVersion(branch, n, e) ==
    IF /\ Len(branch) > n
       /\ SubSeq(branch, 1, n) = S_release_slash
       /\ e > 0
       /\ \/ e = Len(branch)
          \/ e + 1 = Len(branch) /\ branch[e + 1] = "\n"
    THEN Some(SubSeq(branch, n + 1, e))
    ELSE None

extract_version_from_branch(branch) ==
    BranchVersion(branch, Len(S_release_slash),
                  SemverMatchEnd(branch, Len(S_release_slash) + 1))

\* re.search(r'(?P<semver>\d+\.\d+\.\d+)', v): the leftmost match.
RECURSIVE FirstSemverStart(_, _)
FirstSemverStart(v, i) ==
    IF i > Len(v) THEN 0
    ELSE IF SemverMatchEnd(v, i) > 0 THEN i
    ELSE FirstSemverStart(v, i + 1)

SplitBetween(v, i, e) ==
    <<SubSeq(v, 1, i - 1), SubSeq(v, i, e), SubSeq(v, e + 1, Len(v))>>

\* SplitFrom that prefers a match starting one character later.
SplitFrom_SkipOne(v, i) ==
    IF i = 0 THEN None
    ELSE IF SemverMatchEnd(v, i + 1) > 0
         THEN SplitBetween(v, i + 1, SemverMatchEnd(v, i + 1))
    ELSE SplitBetween(v, i, SemverMatchEnd(v, i))

\* Lines 59-64, i being where the match starts (0: no match).
SplitFrom(v, i) ==
    IF i = 0 THEN None ELSE SplitBetween(v, i, SemverMatchEnd(v, i))

split_version_str(v) == SplitFrom(v, FirstSemverStart(v, 1))

\* bump_minor_semver bumping the patch component instead.
BumpMinorParts_Patch(p) == FormatSemver(p[1], p[2], p[3] + 1)

\* Lines 67-70.
BumpMinorParts(p) == FormatSemver(p[1], p[2] + 1, 0)

bump_minor_semver(semver) == BumpMinorParts(SemverParts(semver))

(***************************************************************************)
(* Descriptors                                                             *)
(*                                                                         *)
(* A package.json is [kind |-> "FLAT", version |-> Optional str]: what     *)
(* data.get("version") returns.  A pom.xml is [kind |-> "TREE", nodes |->  *)
(* the elements in document order (the order of root.iter())], an element  *)
(* being [tag |-> [ns, local], parent |-> index of its parent, 0 for the   *)
(* root, text |-> Optional str].  [kind |-> "CORRUPT"] is a file that      *)
(* json.load or ET.parse rejects.  A working tree maps each path to its    *)
(* file, or to Absent.                                                     *)
(***************************************************************************)
Absent == [kind |-> "ABSENT"]
Corrupt == [kind |-> "CORRUPT"]
Flat(v) == [kind |-> "FLAT", version |-> v]
Tree(ns) == [kind |-> "TREE", nodes |-> ns]
Elem(t, p, x) == [tag |-> [ns |-> "m", local |-> t], parent |-> p, text |-> x]

\* elem.tag.split('}')[-1] if '}' in elem.tag else elem.tag
TagLocal(e) == e.tag.local

\* str.lower() on a tag name, over the tag names the model's trees use.
LowerTag(t) ==
    CASE t = "Version" -> "version" [] t = "VERSION" -> "version"
      [] t = "Dependency" -> "dependency" [] OTHER -> t

ExcludedAncestors ==
    {"dependency", "dependencies", "dependencyManagement", "plugin", "plugins"}

\* The ancestor walk stopping at the parent.
SkipFrom_ParentOnly(nodes, p) ==
    p # 0 /\ nodes[p].tag.local \in ExcludedAncestors

\* The while loop over parent_map: is p, or an element above p, excluded?
RECURSIVE SkipFrom(_, _)
SkipFrom(nodes, p) ==
    IF p = 0 THEN FALSE
    ELSE IF TagLocal(nodes[p]) \in ExcludedAncestors THEN TRUE
    ELSE SkipFrom(nodes, nodes[p].parent)

\* An element the pom passes look at: tagged version (in any case) and not
\* under an excluded ancestor.
IsCandidate(nodes, i) ==
    /\ LowerTag(TagLocal(nodes[i])) = "version"
    /\ ~SkipFrom(nodes, nodes[i].parent)

\* elem.text.strip() if elem.text else ""
ElemText(e) == IF IsNone(e.text) THEN <<>> ELSE StrStrip(e.text[1])

(***************************************************************************)
(* package.json passes, one file.  Each yields the new version, None when  *)
(* the file is left alone.                                                 *)
(***************************************************************************)
\* The condition of lines 93 and 119.
PkgCondition(semver, suffix, source_semver) ==
    semver = source_semver \/ ContainsSnapshot(suffix)

\* PkgStripParts without the test new_v != v of line 95.
PkgStripParts_NoCompare(v, parts, source_semver) ==
    IF IsNone(parts) THEN None
    ELSE IF PkgCondition(parts[2], parts[3], source_semver)
         THEN Some(parts[1] \o parts[2])
         ELSE None

\* Lines 91-96, parts being what split_version_str(v) returned.
PkgStripParts(v, parts, source_semver) ==
    IF IsNone(parts) THEN None
    ELSE IF PkgCondition(parts[2], parts[3], source_semver)
            /\ parts[1] \o parts[2] # v
         THEN Some(parts[1] \o parts[2])
         ELSE None

\* Lines 85-96.
PkgStripVersion(data, source_semver) ==
    IF IsNone(data.version) \/ Len(data.version[1]) = 0 THEN None
    ELSE PkgStripParts(data.version[1], split_version_str(data.version[1]),
                       source_semver)

\* PkgBumpParts that writes the bumped semver without "-snapshot".
PkgBumpParts_NoMarker(v, parts, source_semver, bumped_semver) ==
    IF IsNone(parts) THEN None
    ELSE IF PkgCondition(parts[2], parts[3], source_semver)
            /\ parts[1] \o bumped_semver # v
         THEN Some(parts[1] \o bumped_semver)
         ELSE None

\* Lines 117-122.
PkgBumpParts(v, parts, source_semver, bumped_semver) ==
    IF IsNone(parts) THEN None
    ELSE IF PkgCondition(parts[2], parts[3], source_semver)
            /\ parts[1] \o bumped_semver \o S_dash_snapshot # v
         THEN Some(parts[1] \o bumped_semver \o S_dash_snapshot)
         ELSE None

\* Lines 111-122.
PkgBumpVersion(data, source_semver, bumped_semver) ==
    IF IsNone(data.version) \/ Len(data.version[1]) = 0 THEN None
    ELSE PkgBumpParts(data.version[1], split_version_str(data.version[1]),
                      source_semver, bumped_semver)

(***************************************************************************)
(* pom.xml passes, one element.  Each yields the new text of a candidate   *)
(* element, None when it is left alone.                                    *)
(***************************************************************************)
\* PomStripParts that leaves a text with no semver alone, as lines 88-90 do.
PomStripParts_SkipUnsplit(text, sp, source_semver) ==
    IF Len(text) = 0 THEN None
    ELSE IF IsNone(sp) THEN None
    ELSE IF (sp[2] = source_semver \/ ContainsSnapshot(sp[3]) \/ ContainsSnapshot(text))
            /\ sp[1] \o sp[2] # text
         THEN Some(sp[1] \o sp[2])
    ELSE None

\* Lines 164-179, sp being what split_version_str(text) returned.
PomStripParts(text, sp, source_semver) ==
    IF Len(text) = 0 THEN None
    ELSE IF IsNone(sp)
         THEN IF ContainsSnapshot(text) THEN Some(RemoveSnapshot(text)) ELSE None
    ELSE IF (sp[2] = source_semver \/ ContainsSnapshot(sp[3]) \/ ContainsSnapshot(text))
            /\ sp[1] \o sp[2] # text
         THEN Some(sp[1] \o sp[2])
    ELSE None

\* Lines 161-179.
PomStripText(e, source_semver) ==
    PomStripParts(ElemText(e), split_version_str(ElemText(e)), source_semver)

\* PomBumpParts without the condition of line 224.
PomBumpParts_Always(text, sp, source_semver, bumped_semver) ==
    IF Len(text) = 0 THEN None
    ELSE IF IsNone(sp)
         THEN IF ContainsSnapshot(text)
              THEN Some(ReplaceSnapshot(text, bumped_semver \o S_dash_SNAPSHOT))
              ELSE None
    ELSE IF sp[1] \o bumped_semver \o S_dash_SNAPSHOT # text
         THEN Some(sp[1] \o bumped_semver \o S_dash_SNAPSHOT)
    ELSE None

\* Lines 214-231.
PomBumpParts(text, sp, source_semver, bumped_semver) ==
    IF Len(text) = 0 THEN None
    ELSE IF IsNone(sp)
         THEN IF ContainsSnapshot(text)
              THEN Some(ReplaceSnapshot(text, bumped_semver \o S_dash_SNAPSHOT))
              ELSE None
    ELSE IF (sp[2] = source_semver \/ ContainsSnapshot(sp[3]))
            /\ sp[1] \o bumped_semver \o S_dash_SNAPSHOT # text
         THEN Some(sp[1] \o bumped_semver \o S_dash_SNAPSHOT)
    ELSE None

\* Lines 211-231.
PomBumpText(e, source_semver, bumped_semver) ==
    PomBumpParts(ElemText(e), split_version_str(ElemText(e)), source_semver,
                 bumped_semver)

\* The loop over root.iter(): texts[i] is the new text of element i, None
\* when the pass leaves it alone (no candidate, or no rewrite).
PomStripTexts(nodes, source_semver) ==
    [i \in 1..Len(nodes) |->
        IF IsCandidate(nodes, i) THEN PomStripText(nodes[i], source_semver) ELSE None]

PomBumpTexts(nodes, source_semver, bumped_semver) ==
    [i \in 1..Len(nodes) |->
        IF IsCandidate(nodes, i)
        THEN PomBumpText(nodes[i], source_semver, bumped_semver) ELSE None]

\* The elements after the pass.
PomApply(nodes, texts) ==
    [i \in 1..Len(nodes) |->
        IF IsNone(texts[i]) THEN nodes[i]
        ELSE [nodes[i] EXCEPT !.text = texts[i]]]

\* `modified`: the pass assigned a text to some element.
PomModified(texts) == \E i \in 1..Len(texts) : ~IsNone(texts[i])

\* The text assigned last (new_version_global within one file).
RECURSIVE LastText(_, _)
LastText(texts, i) ==
    IF i = 0 THEN None
    ELSE IF ~IsNone(texts[i]) THEN texts[i]
    ELSE LastText(texts, i - 1)

(***************************************************************************)
(* The passes over a list of files.  Each walks `files` from index i on    *)
(* the working tree wt and yields [wt, changed, version, raised]: the      *)
(* working tree as written so far, the list `changed`, new_version_global  *)
(* (an Optional; None in the strip passes) and whether open / json.load /  *)
(* ET.parse raised, which ends the pass at that file.                      *)
(***************************************************************************)
Readable(d) == d.kind \in {"FLAT", "TREE"}

PassResult(wt, changed, version, raised) ==
    [wt |-> wt, changed |-> changed, version |-> version, raised |-> raised]

RECURSIVE PkgStripLoop(_, _, _, _, _)
\* Lines 95-100 for files[i], new_v being its new version.
PkgStripFile(wt, files, i, source_semver, changed, new_v) ==
    IF IsNone(new_v)
    THEN PkgStripLoop(wt, files, i + 1, source_semver, changed)
    ELSE PkgStripLoop([wt EXCEPT ![files[i]].version = new_v], files, i + 1,
                      source_semver, Append(changed, files[i]))

PkgStripLoop(wt, files, i, source_semver, changed) ==
    IF i > Len(files) THEN PassResult(wt, changed, None, FALSE)
    ELSE IF ~Readable(wt[files[i]]) THEN PassResult(wt, changed, None, TRUE)
    ELSE PkgStripFile(wt, files, i, source_semver, changed,
                      PkgStripVersion(wt[files[i]], source_semver))

update_package_json_remove_snapshot(wt, files, source_semver) ==
    PkgStripLoop(wt, files, 1, source_semver, <<>>)

RECURSIVE PkgBumpLoop(_, _, _, _, _, _, _)
\* Lines 121-128 for files[i].
PkgBumpFile(wt, files, i, source_semver, bumped_semver, changed, version, new_v) ==
    IF IsNone(new_v)
    THEN PkgBumpLoop(wt, files, i + 1, source_semver, bumped_semver, changed, version)
    ELSE PkgBumpLoop([wt EXCEPT ![files[i]].version = new_v], files, i + 1,
                     source_semver, bumped_semver, Append(changed, files[i]), new_v)

PkgBumpLoop(wt, files, i, source_semver, bumped_semver, changed, version) ==
    IF i > Len(files)
    THEN PassResult(wt, changed,
                    IF IsNone(version)
                    THEN Some(S_unknown_prefix \o bumped_semver \o S_dash_snapshot)
                    ELSE version,
                    FALSE)
    ELSE IF ~Readable(wt[files[i]]) THEN PassResult(wt, changed, None, TRUE)
    ELSE PkgBumpFile(wt, files, i, source_semver, bumped_semver, changed, version,
                     PkgBumpVersion(wt[files[i]], source_semver, bumped_semver))

update_package_json_add_snapshot_bump(wt, files, source_semver) ==
    PkgBumpLoop(wt, files, 1, source_semver, bump_minor_semver(source_semver),
                <<>>, None)

RECURSIVE PomStripLoop(_, _, _, _, _)
\* Lines 180-182 for files[i], texts being the new texts of its elements.
PomStripFile(wt, files, i, source_semver, changed, texts) ==
    IF ~PomModified(texts)
    THEN PomStripLoop(wt, files, i + 1, source_semver, changed)
    ELSE PomStripLoop([wt EXCEPT ![files[i]].nodes = PomApply(@, texts)],
                      files, i + 1, source_semver, Append(changed, files[i]))

PomStripLoop(wt, files, i, source_semver, changed) ==
    IF i > Len(files) THEN PassResult(wt, changed, None, FALSE)
    ELSE IF ~Readable(wt[files[i]]) THEN PassResult(wt, changed, None, TRUE)
    ELSE PomStripFile(wt, files, i, source_semver, changed,
                      PomStripTexts(wt[files[i]].nodes, source_semver))

update_pom_remove_snapshot(wt, files, source_semver) ==
    PomStripLoop(wt, files, 1, source_semver, <<>>)

RECURSIVE PomBumpLoop(_, _, _, _, _, _, _)
\* Lines 232-234 for files[i].
PomBumpFile(wt, files, i, source_semver, bumped_semver, changed, version, texts) ==
    IF ~PomModified(texts)
    THEN PomBumpLoop(wt, files, i + 1, source_semver, bumped_semver, changed, version)
    ELSE PomBumpLoop([wt EXCEPT ![files[i]].nodes = PomApply(@, texts)],
                     files, i + 1, source_semver, bumped_semver,
                     Append(changed, files[i]), LastText(texts, Len(texts)))

PomBumpLoop(wt, files, i, source_semver, bumped_semver, changed, version) ==
    IF i > Len(files)
    THEN PassResult(wt, changed,
                    IF IsNone(version)
                    THEN Some(S_unknown \o bumped_semver \o S_dash_SNAPSHOT)
                    ELSE version,
                    FALSE)
    ELSE IF ~Readable(wt[files[i]]) THEN PassResult(wt, changed, None, TRUE)
    ELSE PomBumpFile(wt, files, i, source_semver, bumped_semver, changed, version,
                     PomBumpTexts(wt[files[i]].nodes, source_semver, bumped_semver))

update_pom_add_snapshot_bump(wt, files, source_semver) ==
    PomBumpLoop(wt, files, 1, source_semver, bump_minor_semver(source_semver),
                <<>>, None)

(***************************************************************************)
(* Descriptor Locator                                                      *)
(***************************************************************************)
\* The paths of the model's project tree, in the order glob yields them.
AllPaths == <<"package.json", "pom.xml">>

IsPkgPath(p) == p = "package.json"
IsPomPath(p) == p = "pom.xml"
Exists(wt, p) == wt[p].kind # "ABSENT"

find_package_json_files(wt) ==
    SelectSeq(AllPaths, LAMBDA p : IsPkgPath(p) /\ Exists(wt, p))

find_pom_files(wt) ==
    SelectSeq(AllPaths, LAMBDA p : IsPomPath(p) /\ Exists(wt, p))

(***************************************************************************)
(* State                                                                   *)
(***************************************************************************)
VARIABLES
    pc,       \* where main() is; "Rewrite" in the specification of the passes
    runNo,    \* the number of this invocation of the script
    faults,   \* external commands that failed for a reason of the environment
    input,    \* [arg, ref, token]: --source-branch, the event's head.ref, GITHUB_TOKEN
    remote,   \* origin: [main, develop, tags, releases, sync, prs]
    tags,     \* the local repository's tags: a set of [name, rev]
    wt,       \* the working tree: path -> descriptor
    run,      \* the locals of main()
    log,      \* the external commands this invocation ran, in order
    outcome,  \* [code, error]: the exit code and what was reported
    hist      \* the passes applied so far, in the specification of the passes

vars == <<pc, runNo, faults, input, remote, tags, wt, run, log, outcome, hist>>

NoRun ==
    [source_branch |-> None, source_semver |-> None,
     pkg_files |-> <<>>, pom_files |-> <<>>,
     changed_pkg |-> <<>>, changed_pom |-> <<>>,
     all_changed |-> <<>>, new_pkg_version |-> None, new_pom_version |-> None,
     commits_ahead |-> 0, head |-> 0,
     faulted |-> FALSE, rerun_of |-> "none", release_at_start |-> FALSE]

NoRemote ==
    [main |-> [rev |-> 0, tree |-> <<>>],
     develop |-> [main_rev |-> 0, tree |-> <<>>],
     tags |-> {}, releases |-> {}, sync |-> None, prs |-> {}]

NoInput == [arg |-> None, ref |-> None, token |-> None]
NoOutcome == [code |-> -1, error |-> "none", at |-> "none"]

(***************************************************************************)
(* The passes on their own: a descriptor and a source semver are drawn     *)
(* from RwInputs, and the Release Pass (lines 299-300) and the Snapshot    *)
(* Pass (lines 343-345) are applied to it, in any order, MaxPasses times.  *)
(***************************************************************************)
MaxPasses == 2

V_120 == <<"1", ".", "2", ".", "0">>
V_123 == <<"1", ".", "2", ".", "3">>
V_190 == <<"1", ".", "9", ".", "0">>
V_200 == <<"2", ".", "0", ".", "0">>
V_0120 == <<"0", "1", ".", "2", ".", "0">>

RwSemvers == {V_120, V_123, V_190, V_200, V_0120}
RwSources == {V_120, V_123, V_200, V_0120}
RwPrefixes == {<<>>, <<"c", "b", "a", "-">>, S_snapshot \o <<"-">>}
RwSuffixes ==
    {<<>>, S_dash_snapshot, S_dash_SNAPSHOT, <<"-", "b", "e", "t", "a">>,
     <<".", "4", "-", "S", "n", "a", "p", "s", "h", "o", "t">>}

\* Texts with no digits.digits.digits triple, with and without the marker,
\* and texts with blanks around them.
RwOddTexts ==
    {<<>>,
     <<"n", "i", "g", "h", "t", "l", "y">>,
     <<"n", "i", "g", "h", "t", "l", "y">> \o S_dash_snapshot,
     <<"1", ".", "2">> \o S_dash_snapshot \o <<".", "3", "-", "b", "e", "t", "a">>,
     <<"s", "n", "a", "p", "s", "h", "o">> \o S_snapshot \o <<"t">>,
     <<" ">> \o V_120 \o S_dash_snapshot \o <<" ">>}

RwTexts ==
    {p \o v \o x : p \in RwPrefixes, v \in RwSemvers, x \in RwSuffixes}
    \cup RwOddTexts

\* What a version element under an excluded ancestor may hold.
RwPinTexts == {V_120, V_123 \o S_dash_SNAPSHOT, <<"n", "i", "g", "h", "t", "l", "y">> \o S_dash_snapshot}

RwShape(k, t, d) ==
    CASE k = 1 ->
           <<Elem("project", 0, None), Elem("version", 1, Some(t)),
             Elem("dependencies", 1, None), Elem("dependency", 3, None),
             Elem("artifactId", 4, Some(<<"x">>)), Elem("version", 4, Some(d))>>
      [] k = 2 ->
           <<Elem("project", 0, None), Elem("parent", 1, None),
             Elem("Version", 2, Some(t)), Elem("build", 1, None),
             Elem("plugins", 4, None), Elem("plugin", 5, None),
             Elem("configuration", 6, None), Elem("version", 7, Some(d))>>
      [] k = 3 ->
           <<Elem("project", 0, None), Elem("dependencyManagement", 1, None),
             Elem("VERSION", 2, Some(d)), Elem("properties", 1, None),
             Elem("version", 4, Some(t)), Elem("version", 1, None)>>

RwShapes == {1, 2, 3}

RwFiles ==
    {[p \in {"package.json", "pom.xml"} |->
        IF p = "package.json" THEN Flat(v) ELSE Absent] :
        v \in {None} \cup {Some(t) : t \in RwTexts}}
    \cup
    {[p \in {"package.json", "pom.xml"} |->
        IF p = "pom.xml" THEN Tree(RwShape(k, t, d)) ELSE Absent] :
        k \in RwShapes, t \in RwTexts, d \in RwPinTexts}

RwInit ==
    /\ pc = "Rewrite"
    /\ wt \in RwFiles
    /\ run \in {[NoRun EXCEPT !.source_semver = Some(s)] : s \in RwSources}
    /\ hist = <<>>
    /\ runNo = 0
    /\ faults = 0
    /\ input = NoInput
    /\ remote = NoRemote
    /\ tags = {}
    /\ log = <<>>
    /\ outcome = NoOutcome

\* Lines 299-300 of main(): both strip passes, pkg being the result of the
\* first.
ReleasePassPom(pkg, pom) ==
    [wt |-> pom.wt, changed_pkg |-> pkg.changed, changed_pom |-> pom.changed,
     raised |-> pkg.raised \/ pom.raised]

ReleasePassPkg(pkg, pom_files, source_semver) ==
    IF pkg.raised
    THEN ReleasePassPom(pkg, PassResult(pkg.wt, <<>>, None, FALSE))
    ELSE ReleasePassPom(pkg, update_pom_remove_snapshot(pkg.wt, pom_files, source_semver))

ReleasePass(tree, pkg_files, pom_files, source_semver) ==
    ReleasePassPkg(update_package_json_remove_snapshot(tree, pkg_files, source_semver),
                   pom_files, source_semver)

\* Lines 343-345 of main(): both bump passes.
SnapshotPassPom(pkg, pom) ==
    [wt |-> pom.wt, all_changed |-> pkg.changed \o pom.changed,
     new_pkg_version |-> pkg.version, new_pom_version |-> pom.version,
     raised |-> pkg.raised \/ pom.raised]

SnapshotPassPkg(pkg, pom_files, source_semver) ==
    IF pkg.raised
    THEN SnapshotPassPom(pkg, PassResult(pkg.wt, <<>>, None, FALSE))
    ELSE SnapshotPassPom(pkg, update_pom_add_snapshot_bump(pkg.wt, pom_files, source_semver))

SnapshotPass(tree, pkg_files, pom_files, source_semver) ==
    SnapshotPassPkg(update_package_json_add_snapshot_bump(tree, pkg_files, source_semver),
                    pom_files, source_semver)

RwStrip ==
    /\ pc = "Rewrite"
    /\ Len(hist) < MaxPasses
    /\ \E r \in {ReleasePass(wt, find_package_json_files(wt), find_pom_files(wt),
                             run.source_semver[1])} :
       /\ wt' = r.wt
       /\ hist' = Append(hist, [mode |-> "strip", before |-> wt, after |-> r.wt,
                                changed |-> r.changed_pkg \o r.changed_pom])
    /\ UNCHANGED <<pc, runNo, faults, input, remote, tags, run, log, outcome>>

RwBump ==
    /\ pc = "Rewrite"
    /\ Len(hist) < MaxPasses
    /\ \E r \in {SnapshotPass(wt, find_package_json_files(wt), find_pom_files(wt),
                              run.source_semver[1])} :
       /\ wt' = r.wt
       /\ hist' = Append(hist, [mode |-> "bump", before |-> wt, after |-> r.wt,
                                changed |-> r.all_changed])
    /\ UNCHANGED <<pc, runNo, faults, input, remote, tags, run, log, outcome>>

RwNext == RwStrip \/ RwBump

SpecRewrite == RwInit /\ [][RwNext]_vars


(***************************************************************************)
(* split_version_str on its own: applied to every string of at most MaxRaw *)
(* characters over a digit, the dot and a letter.                          *)
(***************************************************************************)
MaxRaw == 8

RawChars == {"1", ".", "a"}

RawStrings == UNION {[1..n -> RawChars] : n \in 0..MaxRaw}

SplitInit ==
    /\ pc = "Split"
    /\ input \in {[NoInput EXCEPT !.arg = Some(raw)] : raw \in RawStrings}
    /\ hist = <<>>
    /\ wt = <<>>
    /\ run = NoRun
    /\ runNo = 0
    /\ faults = 0
    /\ remote = NoRemote
    /\ tags = {}
    /\ log = <<>>
    /\ outcome = NoOutcome

SplitApply ==
    /\ pc = "Split"
    /\ hist' = <<[mode |-> "split", raw |-> input.arg[1],
                  parts |-> split_version_str(input.arg[1])]>>
    /\ pc' = "SplitDone"
    /\ UNCHANGED <<runNo, faults, input, remote, tags, wt, run, log, outcome>>

SplitNext == SplitApply

SpecSplit == SplitInit /\ [][SplitNext]_vars


(***************************************************************************)
(* Properties of the passes (checked under SpecRewrite)                    *)
(***************************************************************************)
IsTree(d) == d.kind = "TREE"
IsFlat(d) == d.kind = "FLAT"

\* The version of a package.json as a str ("" when it has none).
FlatText(d) == IF IsNone(d.version) THEN <<>> ELSE d.version[1]

\* A project-owned version element whose text holds the marker and no
\* digits.digits.digits triple.
BareMarker(nodes, i) ==
    /\ IsCandidate(nodes, i)
    /\ IsNone(split_version_str(ElemText(nodes[i])))
    /\ ContainsSnapshot(ElemText(nodes[i]))

HasBareMarker(tree) ==
    \E p \in DOMAIN tree :
        IsTree(tree[p]) /\ \E i \in 1..Len(tree[p].nodes) : BareMarker(tree[p].nodes, i)

StripTwice(k) ==
    /\ k + 1 <= Len(hist)
    /\ hist[k].mode = "strip"
    /\ hist[k + 1].mode = "strip"

\* C3 as stated: a second Strip pass on the output of a first one, with
\* the same source semver, reports no changed file, whatever the descriptor.
C3_StripIdempotentAlways ==
    \A k \in 1..Len(hist) : StripTwice(k) => hist[k + 1].changed = <<>>

\* C3: a second Strip pass on the output of a first one, with the same
\* source semver, reports no changed file and rewrites nothing, for every
\* FLAT descriptor and for every TREE descriptor none of whose
\* project-owned version texts holds the marker without a
\* digits.digits.digits triple.
C3_StripIdempotent ==
    \A k \in 1..Len(hist) :
        StripTwice(k) /\ ~HasBareMarker(hist[k].before)
            => hist[k + 1].changed = <<>> /\ hist[k + 1].after = hist[k + 1].before

C3_Witness ==
    /\ Len(hist) = 2
    /\ StripTwice(1)
    /\ IsTree(hist[1].before["pom.xml"])
    /\ ~HasBareMarker(hist[1].before)
    /\ hist[1].changed = <<"pom.xml">>
    /\ hist[2].changed = <<>>

\* The Bump Policy of the specification: nextDevVersion(previous, target).
NextDevVersion(previous, target) ==
    IF target[1] > previous[1] THEN <<target[1] + 1, 0, 0>>
    ELSE IF target[2] > previous[2] THEN <<target[1], target[2] + 1, 0>>
    ELSE IF target[3] > previous[3] THEN <<target[1], target[2], target[3] + 1>>
    ELSE <<target[1], target[2] + 1, 0>>

\* The integers of the first digits.digits.digits triple of a text.
TextSemver(text) == SemverParts(split_version_str(text)[2])

Decomposes(text) == ~IsNone(split_version_str(text))

\* The texts a bump pass rewrote, as pairs <<before, after>>, for the
\* fields that decomposed: the package.json version and the project-owned
\* version elements of the pom.xml.
BumpRewrites(h) ==
    {<<FlatText(h.before[p]), FlatText(h.after[p])>> :
        p \in {q \in DOMAIN h.before : IsFlat(h.before[q]) /\ h.after[q] # h.before[q]}}
    \cup
    UNION {{<<ElemText(h.before[p].nodes[i]), ElemText(h.after[p].nodes[i])>> :
              i \in {j \in 1..Len(h.before[p].nodes) :
                       /\ h.after[p].nodes[j] # h.before[p].nodes[j]
                       /\ Decomposes(ElemText(h.before[p].nodes[j]))}} :
           p \in {q \in DOMAIN h.before : IsTree(h.before[q])}}

\* C6 as stated: the semver the Snapshot Pass writes is the component-aware
\* nextDevVersion(previous = the field's semver, target = source semver).
C6_ComponentAwareBump ==
    \A k \in 1..Len(hist) :
        hist[k].mode = "bump" =>
            \A r \in BumpRewrites(hist[k]) :
                TextSemver(r[2]) = NextDevVersion(TextSemver(r[1]),
                                                  SemverParts(run.source_semver[1]))

\* C6: the semver the Snapshot Pass writes into a field is always the minor
\* bump of the source semver, major.(minor+1).0 with the components read as
\* integers, whatever semver the field held.
C6_AlwaysMinorBump ==
    \A k \in 1..Len(hist) :
        hist[k].mode = "bump" =>
            \A r \in BumpRewrites(hist[k]) :
                TextSemver(r[2]) = <<SemverParts(run.source_semver[1])[1],
                                     SemverParts(run.source_semver[1])[2] + 1, 0>>

C6_Witness ==
    /\ Len(hist) = 1
    /\ hist[1].mode = "bump"
    /\ run.source_semver = Some(V_200)
    /\ IsFlat(hist[1].before["package.json"])
    /\ FlatText(hist[1].before["package.json"]) = V_120 \o S_dash_snapshot
    /\ FlatText(hist[1].after["package.json"])
         = <<"2", ".", "1", ".", "0">> \o S_dash_snapshot

\* The elements above element i.
RECURSIVE AncestorsFrom(_, _)
AncestorsFrom(nodes, p) ==
    IF p = 0 THEN {} ELSE {p} \cup AncestorsFrom(nodes, nodes[p].parent)

DependencyScoped(nodes, i) ==
    \E a \in AncestorsFrom(nodes, nodes[i].parent) :
        nodes[a].tag.local \in
            {"dependency", "dependencies", "dependencyManagement", "plugin", "plugins"}

IsVersionElement(nodes, i) == nodes[i].tag.local \in {"version", "Version", "VERSION"}

\* C7: no pass, Strip or Bump-and-mark, changes a version element of a
\* TREE descriptor that has an ancestor tagged dependency, dependencies,
\* dependencyManagement, plugin or plugins.
C7_DependencyScopedUntouched ==
    \A k \in 1..Len(hist) :
        \A p \in DOMAIN hist[k].before :
            IsTree(hist[k].before[p]) =>
                /\ IsTree(hist[k].after[p])
                /\ Len(hist[k].after[p].nodes) = Len(hist[k].before[p].nodes)
                /\ \A i \in 1..Len(hist[k].before[p].nodes) :
                       IsVersionElement(hist[k].before[p].nodes, i)
                       /\ DependencyScoped(hist[k].before[p].nodes, i)
                           => hist[k].after[p].nodes[i] = hist[k].before[p].nodes[i]

\* Both modes rewrote the project's own version, and the version under
\* plugins > plugin > configuration, whose text holds the marker, is as it was.
C7_Witness ==
    /\ Len(hist) = 2
    /\ hist[1].mode = "strip" /\ hist[2].mode = "bump"
    /\ hist[1].changed = <<"pom.xml">> /\ hist[2].changed = <<"pom.xml">>
    /\ IsTree(wt["pom.xml"])
    /\ Len(wt["pom.xml"].nodes) = 8
    /\ DependencyScoped(wt["pom.xml"].nodes, 8)
    /\ wt["pom.xml"].nodes[8].text = Some(V_123 \o S_dash_SNAPSHOT)
    /\ run.source_semver = Some(V_123)


StripThenBump(k) ==
    /\ k + 1 <= Len(hist)
    /\ hist[k].mode = "strip"
    /\ hist[k + 1].mode = "bump"

SourceParts == SemverParts(run.source_semver[1])

\* The text is X.(Y+1).0-snapshot for the source semver X.Y.Z, its
\* components read as integers.
IsNextSnapshot(text) ==
    /\ Decomposes(text)
    /\ split_version_str(text)[1] = <<>>
    /\ TextSemver(text) = <<SourceParts[1], SourceParts[2] + 1, 0>>
    /\ split_version_str(text)[3] = S_dash_snapshot

\* C11: for source semver X.Y.Z and a package.json whose version is
\* X.Y.Z-snapshot, the Release Pass leaves X.Y.Z and the Snapshot Pass run
\* after it leaves X.(Y+1).0-snapshot, each reporting the file as changed.
C11_FlatEndToEnd ==
    \A k \in 1..Len(hist) :
        /\ StripThenBump(k)
        /\ IsFlat(hist[k].before["package.json"])
        /\ hist[k].before["package.json"].version
               = Some(run.source_semver[1] \o S_dash_snapshot)
        => /\ hist[k].after["package.json"] = Flat(run.source_semver)
           /\ hist[k].changed = <<"package.json">>
           /\ hist[k + 1].before = hist[k].after
           /\ IsFlat(hist[k + 1].after["package.json"])
           /\ IsNextSnapshot(FlatText(hist[k + 1].after["package.json"]))
           /\ hist[k + 1].changed = <<"package.json">>

C11_Witness ==
    /\ Len(hist) = 2
    /\ StripThenBump(1)
    /\ run.source_semver = Some(V_120)
    /\ hist[1].before["package.json"] = Flat(Some(V_120 \o S_dash_snapshot))
    /\ hist[1].after["package.json"] = Flat(Some(V_120))
    /\ wt["package.json"] = Flat(Some(<<"1", ".", "3", ".", "0">> \o S_dash_snapshot))

\* The project-owned version fields of the descriptors of a pass that
\* decompose, as <<text before, text after, marker of the kind>>.
CandidateFields(h) ==
    {<<FlatText(h.before[p]), FlatText(h.after[p]), S_dash_snapshot>> :
        p \in {q \in DOMAIN h.before :
                 IsFlat(h.before[q]) /\ Decomposes(FlatText(h.before[q]))}}
    \cup
    UNION {{<<ElemText(h.before[p].nodes[i]), ElemText(h.after[p].nodes[i]),
              S_dash_SNAPSHOT>> :
              i \in {j \in 1..Len(h.before[p].nodes) :
                       /\ IsCandidate(h.before[p].nodes, j)
                       /\ Decomposes(ElemText(h.before[p].nodes[j]))}} :
           p \in {q \in DOMAIN h.before : IsTree(h.before[q])}}

\* prefix + nextSemver + marker for the field f.
MarkedNext(f) ==
    split_version_str(f[1])[1] \o bump_minor_semver(run.source_semver[1]) \o f[3]

\* Line 119, line 224: the field's semver is the source semver, or its
\* suffix holds the marker in any case.
BumpApplies(f) ==
    \/ split_version_str(f[1])[2] = run.source_semver[1]
    \/ ContainsSnapshot(split_version_str(f[1])[3])

MarkerOnlyFields(h) ==
    {<<"FLAT", p, FlatText(h.before[p]), FlatText(h.after[p])>> :
        p \in {q \in DOMAIN h.before :
                 /\ IsFlat(h.before[q])
                 /\ ~Decomposes(FlatText(h.before[q]))
                 /\ ContainsSnapshot(FlatText(h.before[q]))}}
    \cup
    UNION {{<<"TREE", p, ElemText(h.before[p].nodes[i]), ElemText(h.after[p].nodes[i])>> :
              i \in {j \in 1..Len(h.before[p].nodes) : BareMarker(h.before[p].nodes, j)}} :
           p \in {q \in DOMAIN h.before : IsTree(h.before[q])}}

Reported(h, p) == \E i \in 1..Len(h.changed) : h.changed[i] = p

\* The token was removed and the rest kept.
TokenRemoved(f) ==
    /\ f[4] = RemoveSnapshot(f[3])
    /\ Len(f[4]) < Len(f[3])

\* C14 as stated: the Strip pass removes the marker token from a
\* project-owned version field that holds the token and no decomposable
\* semver, in a package.json as in a pom.xml, and reports the file as changed.
C14_StripUniform ==
    \A k \in 1..Len(hist) :
        hist[k].mode = "strip" =>
            \A f \in MarkerOnlyFields(hist[k]) :
                TokenRemoved(f) /\ Reported(hist[k], f[2])

\* C14: for a project-owned version field that holds the marker token and
\* no decomposable semver, the Strip pass removes every occurrence of the
\* token (with the hyphen before it, in any case) it meets in one scan of a
\* pom.xml element and reports the file as changed, and leaves the version
\* of a package.json as it was, without reporting the file.
C14_StripByKind ==
    \A k \in 1..Len(hist) :
        hist[k].mode = "strip" =>
            \A f \in MarkerOnlyFields(hist[k]) :
                IF f[1] = "TREE"
                THEN TokenRemoved(f) /\ Reported(hist[k], f[2])
                ELSE f[4] = f[3] /\ ~Reported(hist[k], f[2])

\* A pom.xml whose own version was nightly-snapshot and is nightly.
C14_Witness ==
    /\ Len(hist) = 1
    /\ hist[1].mode = "strip"
    /\ <<"TREE", "pom.xml", <<"n", "i", "g", "h", "t", "l", "y">> \o S_dash_snapshot,
         <<"n", "i", "g", "h", "t", "l", "y">>>> \in MarkerOnlyFields(hist[1])
    /\ hist[1].changed = <<"pom.xml">>


\* a <= b for semvers as triples of integers.
SemverLeq(a, b) ==
    \/ a[1] < b[1]
    \/ a[1] = b[1] /\ a[2] < b[2]
    \/ a[1] = b[1] /\ a[2] = b[2] /\ a[3] <= b[3]

\* C19: the bump pass never lowers a version: the semver it writes into a
\* project-owned version field is greater than or equal to the semver the
\* field held before the pass.
C19_BumpNeverLowers ==
    \A k \in 1..Len(hist) :
        hist[k].mode = "bump" =>
            \A r \in BumpRewrites(hist[k]) :
                SemverLeq(TextSemver(r[1]), TextSemver(r[2]))


(***************************************************************************)
(* main(): the inputs and the repositories it starts from                  *)
(***************************************************************************)
MaxRuns == 2
MaxFaults == 1

B_release == S_release_slash \o V_120
B_hotfix == S_hotfix_slash \o V_120
B_feature == <<"f", "e", "a", "t", "u", "r", "e", "/", "x">>

BranchNames ==
    {B_release, B_hotfix, B_feature,
     B_release \o <<"\n">>,
     B_release \o <<"-", "r", "c">>,
     <<"x">> \o B_release,
     S_release_slash \o <<"1", ".", "2">>,
     S_release_slash \o <<"1", "0", ".", "0", ".", "2", "1">>}

Inputs ==
    [arg : {None} \cup {Some(b) : b \in BranchNames},
     ref : {None, Some(B_release)},
     token : {None, Some(<<"t">>)}]

PomOf(t, d) ==
    Tree(<<Elem("project", 0, None), Elem("version", 1, Some(t)),
           Elem("dependencies", 1, None), Elem("dependency", 3, None),
           Elem("version", 4, Some(d))>>)

Files(pkg, pom) == [p \in {"package.json", "pom.xml"} |->
                       IF p = "package.json" THEN pkg ELSE pom]

V_130_snapshot == <<"1", ".", "3", ".", "0">> \o S_dash_snapshot

\* What the merged release branch left on main.
TrunkTrees ==
    {Files(Flat(Some(V_120 \o S_dash_snapshot)), PomOf(V_120 \o S_dash_SNAPSHOT, V_120)),
     Files(Flat(Some(V_120)), Absent),
     Files(Absent, PomOf(V_120 \o S_dash_SNAPSHOT, V_200 \o S_dash_SNAPSHOT))}

\* What develop holds, and whether it already contains main (main_rev 1).
DevelopLines ==
    {[main_rev |-> 0, tree |-> t] : t \in TrunkTrees}
    \cup
    {[main_rev |-> 0, tree |-> Files(Flat(Some(V_200 \o S_dash_snapshot)), Absent)],
     [main_rev |-> 1, tree |-> Files(Flat(Some(V_130_snapshot)), Absent)]}

TagName(semver) == <<"v">> \o semver
SyncBranch(semver) ==
    <<"r", "e", "l", "e", "a", "s", "e", "-", "s", "y", "n", "c", "/">> \o semver

Init ==
    /\ pc = "Start"
    /\ runNo = 1
    /\ faults = 0
    /\ input \in Inputs
    /\ remote \in [main : {[rev |-> 1, tree |-> t] : t \in TrunkTrees},
                   develop : DevelopLines,
                   tags : {{}, {[name |-> TagName(V_120), rev |-> 0]}},
                   releases : {{}}, sync : {None}, prs : {{}}]
    /\ tags = {}
    /\ wt = remote.main.tree
    /\ run = NoRun
    /\ log = <<>>
    /\ outcome = NoOutcome
    /\ hist = <<>>

(***************************************************************************)
(* External commands.  The log holds [cmd, ok, arg] for each command run   *)
(* by run(): ok is whether it returned zero.                               *)
(***************************************************************************)
Cmd(c) == [cmd |-> c, ok |-> TRUE, arg |-> None]
CmdArg(c, a) == [cmd |-> c, ok |-> TRUE, arg |-> Some(a)]
Bad(c) == [cmd |-> c, ok |-> FALSE, arg |-> None]
Cmds(cs) == [i \in 1..Len(cs) |-> Cmd(cs[i])]

\* A command may fail for a reason of the environment (network, rights).
CanFail == faults < MaxFaults

\* run(..., check=True) raised CalledProcessError and nothing catches it
\* (or a descriptor could not be read): traceback, exit status 1.
Uncaught(entries, error) ==
    /\ pc' = "Failed"
    /\ log' = log \o entries
    /\ outcome' = [code |-> 1, error |-> error, at |-> pc]

\* sys.exit(1) after printing `message`.
Exit1(entries, message) ==
    /\ pc' = "Failed"
    /\ log' = log \o entries
    /\ outcome' = [code |-> 1, error |-> message, at |-> pc]

\* One of the commands cs fails for a reason of the environment: those
\* before it ran, and the run ends with the uncaught exception.
FaultIn(cs) ==
    /\ CanFail
    /\ faults' = faults + 1
    /\ run' = [run EXCEPT !.faulted = TRUE]
    /\ \E k \in 1..Len(cs) :
           Uncaught(Cmds(SubSeq(cs, 1, k - 1)) \o <<Bad(cs[k])>>, "CalledProcessError")

(***************************************************************************)
(* main(), lines 253-282: the source branch, its semver, the token         *)
(***************************************************************************)
Truthy(o) == ~IsNone(o) /\ Len(o[1]) > 0

\* Lines 258-267.
SourceBranch(in) == IF Truthy(in.arg) THEN in.arg ELSE in.ref

\* InputErrorOf without the test of the token (lines 278-280).
InputErrorOf_NoTokenTest(in, source_branch, source_semver) ==
    IF ~Truthy(source_branch) THEN "no source branch"
    ELSE IF ~Truthy(source_semver) THEN "branch is not release/X.Y.Z"
    ELSE "none"

\* Lines 269-280: the message of the first test that fails, "none" if none.
InputErrorOf(in, source_branch, source_semver) ==
    IF ~Truthy(source_branch) THEN "no source branch"
    ELSE IF ~Truthy(source_semver) THEN "branch is not release/X.Y.Z"
    ELSE IF ~Truthy(in.token) THEN "no GITHUB_TOKEN"
    ELSE "none"

SemverOfBranch(source_branch) ==
    IF Truthy(source_branch) THEN extract_version_from_branch(source_branch[1])
    ELSE None

DetermineSourceWith(source_branch, source_semver, error) ==
    /\ run' = [run EXCEPT !.source_branch = source_branch,
                          !.source_semver = source_semver]
    /\ IF error = "none"
       THEN pc' = "GitSetup" /\ UNCHANGED <<log, outcome>>
       ELSE Exit1(<<>>, error)

DetermineSource ==
    /\ pc = "Start"
    /\ DetermineSourceWith(SourceBranch(input), SemverOfBranch(SourceBranch(input)),
                           InputErrorOf(input, SourceBranch(input),
                                        SemverOfBranch(SourceBranch(input))))
    /\ UNCHANGED <<runNo, faults, input, remote, tags, wt, hist>>

(***************************************************************************)
(* Lines 284-291: git identity, remote, fetch, checkout main, pull         *)
(***************************************************************************)
GitSetupCmds ==
    <<"git config user.name", "git config user.email", "git remote set-url",
      "git fetch", "git checkout main", "git pull origin main">>

GitSetup ==
    /\ pc = "GitSetup"
    /\ \/ /\ log' = log \o Cmds(GitSetupCmds)
          /\ tags' = remote.tags
          /\ wt' = remote.main.tree
          /\ run' = [run EXCEPT !.head = remote.main.rev]
          /\ pc' = "ReleaseStrip"
          /\ UNCHANGED <<faults, outcome>>
       \/ FaultIn(GitSetupCmds) /\ UNCHANGED <<tags, wt>>
    /\ UNCHANGED <<runNo, input, remote, hist>>


(***************************************************************************)
(* 1) Lines 293-308: remove the snapshots in main                          *)
(***************************************************************************)
\* ReleaseStripWith that commits whether or not a file changed.
ReleaseStripWith_AlwaysCommit(pkg_files, pom_files, r) ==
    /\ wt' = r.wt
    /\ run' = [run EXCEPT !.pkg_files = pkg_files, !.pom_files = pom_files,
                          !.changed_pkg = r.changed_pkg,
                          !.changed_pom = r.changed_pom]
    /\ IF r.raised THEN Uncaught(<<>>, "Exception")
       ELSE /\ pc' = "CommitTrunk"
            /\ UNCHANGED <<log, outcome>>

\* Lines 293-308: the lists, the two passes, and where the run goes next.
ReleaseStripWith(pkg_files, pom_files, r) ==
    /\ wt' = r.wt
    /\ run' = [run EXCEPT !.pkg_files = pkg_files, !.pom_files = pom_files,
                          !.changed_pkg = r.changed_pkg,
                          !.changed_pom = r.changed_pom]
    /\ IF r.raised THEN Uncaught(<<>>, "Exception")
       ELSE /\ pc' = IF r.changed_pkg \o r.changed_pom # <<>>
                     THEN "CommitTrunk" ELSE "CreateTag"
            /\ UNCHANGED <<log, outcome>>

ReleaseStrip ==
    /\ pc = "ReleaseStrip"
    /\ ReleaseStripWith(find_package_json_files(wt), find_pom_files(wt),
                        ReleasePass(wt, find_package_json_files(wt),
                                    find_pom_files(wt), run.source_semver[1]))
    /\ UNCHANGED <<runNo, faults, input, remote, tags, hist>>

\* Lines 303-304.
CommitTrunk ==
    /\ pc = "CommitTrunk"
    /\ \/ /\ log' = log \o <<Cmd("git add"),
                             CmdArg("git commit", run.source_semver[1])>>
          /\ run' = [run EXCEPT !.head = @ + 1]
          /\ pc' = "PushTrunk"
          /\ UNCHANGED <<faults, outcome>>
       \/ FaultIn(<<"git add", "git commit">>)
    /\ UNCHANGED <<runNo, input, remote, tags, wt, hist>>

\* Line 305.
PushTrunk ==
    /\ pc = "PushTrunk"
    /\ \/ /\ log' = Append(log, Cmd("git push origin main"))
          /\ remote' = [remote EXCEPT !.main = [rev |-> run.head, tree |-> wt]]
          /\ pc' = "CreateTag"
          /\ UNCHANGED <<faults, outcome, run>>
       \/ FaultIn(<<"git push origin main">>) /\ UNCHANGED remote
    /\ UNCHANGED <<runNo, input, tags, wt, hist>>

(***************************************************************************)
(* 2) Lines 310-322: the tag and the release                               *)
(***************************************************************************)
HasTag(ts, name) == \E t \in ts : t.name = name

\* TagExistsLocally that lets the CalledProcessError through.
TagExistsLocally_Fatal ==
    /\ tags' = tags
    /\ Uncaught(<<Bad("git tag")>>, "CalledProcessError")

\* Lines 314-315: the CalledProcessError of git tag is caught.
TagExistsLocally ==
    /\ tags' = tags
    /\ log' = Append(log, Bad("git tag"))
    /\ pc' = "PushTag"
    /\ outcome' = outcome

\* Lines 312-315: git tag -a fails when the tag exists; the failure is
\* caught and the run goes on.
CreateTag ==
    /\ pc = "CreateTag"
    /\ IF HasTag(tags, TagName(run.source_semver[1]))
       THEN TagExistsLocally
       ELSE /\ log' = Append(log, Cmd("git tag"))
            /\ tags' = tags \cup {[name |-> TagName(run.source_semver[1]),
                                   rev |-> run.head]}
            /\ pc' = "PushTag"
            /\ outcome' = outcome
    /\ UNCHANGED <<runNo, faults, input, remote, wt, run, hist>>

\* Line 317.  The clone holds every tag of the remote (git fetch follows
\* tags), so the push adds the tag or finds it there already.
PushTag ==
    /\ pc = "PushTag"
    /\ \/ /\ log' = Append(log, Cmd("git push origin tag"))
          /\ remote' = [remote EXCEPT !.tags =
                           @ \cup {t \in tags : t.name = TagName(run.source_semver[1])}]
          /\ pc' = "CreateRelease"
          /\ UNCHANGED <<faults, outcome, run>>
       \/ FaultIn(<<"git push origin tag">>) /\ UNCHANGED remote
    /\ UNCHANGED <<runNo, input, tags, wt, hist>>

\* CreateReleaseRefused that goes on to the development line, the way the
\* failure of git tag is caught.
CreateReleaseRefused_Continue ==
    /\ log' = Append(log, Bad("gh release create"))
    /\ pc' = "CheckoutSync"
    /\ outcome' = outcome

\* Lines 319-322 when the hosting service refuses the release because one
\* exists for the tag: CalledProcessError, which nothing catches.
CreateReleaseRefused ==
    Uncaught(<<Bad("gh release create")>>, "CalledProcessError")

\* Lines 319-322.
CreateRelease ==
    /\ pc = "CreateRelease"
    /\ \/ IF TagName(run.source_semver[1]) \in remote.releases
          THEN /\ CreateReleaseRefused
               /\ UNCHANGED <<remote, faults, run>>
          ELSE /\ log' = Append(log, Cmd("gh release create"))
               /\ remote' = [remote EXCEPT !.releases =
                                @ \cup {TagName(run.source_semver[1])}]
               /\ pc' = "CheckoutSync"
               /\ UNCHANGED <<faults, outcome, run>>
       \/ FaultIn(<<"gh release create">>) /\ UNCHANGED remote
    /\ UNCHANGED <<runNo, input, tags, wt, hist>>


(***************************************************************************)
(* 3) Lines 324-373: main -> develop through the sync branch               *)
(***************************************************************************)
CheckoutSyncCmds == <<"git fetch", "git checkout -b sync origin/develop">>

\* Lines 325-333.  git branch -D runs with check=False: its result is
\* ignored, and the fresh clone holds no sync branch for it to delete.
CheckoutSync ==
    /\ pc = "CheckoutSync"
    /\ \/ /\ log' = log \o <<Cmd("git fetch"), Bad("git branch -D sync"),
                             Cmd("git checkout -b sync origin/develop")>>
          /\ wt' = remote.develop.tree
          /\ pc' = "MergeTrunk"
          /\ UNCHANGED <<faults, outcome, run>>
       \/ FaultIn(CheckoutSyncCmds) /\ UNCHANGED wt
    /\ UNCHANGED <<runNo, input, remote, tags, hist>>

\* What a merge of main into develop that git completes can leave: nothing
\* new when develop contains main, otherwise, file by file, the side that
\* changed since the common ancestor, which the model does not know.
MergedTrees(develop, main) ==
    IF develop.main_rev = main.rev THEN {develop.tree}
    ELSE {[p \in DOMAIN main.tree |->
              IF p \in theirs THEN main.tree[p] ELSE develop.tree[p]] :
          theirs \in SUBSET DOMAIN main.tree}

\* MergeConflict that prints the error and goes on.
MergeConflict_Continue ==
    /\ log' = Append(log, Bad("git merge origin/main"))
    /\ pc' = "SnapshotBump"
    /\ outcome' = outcome

\* Lines 338-340: the merge failed.
MergeConflict ==
    Exit1(<<Bad("git merge origin/main")>>, "merge conflict")

\* Lines 335-340.
MergeTrunk ==
    /\ pc = "MergeTrunk"
    /\ \/ /\ log' = Append(log, Cmd("git merge origin/main"))
          /\ wt' \in MergedTrees(remote.develop, remote.main)
          /\ pc' = "SnapshotBump"
          /\ UNCHANGED <<faults, outcome, run>>
       \/ /\ CanFail
          /\ faults' = faults + 1
          /\ run' = [run EXCEPT !.faulted = TRUE]
          /\ MergeConflict
          /\ UNCHANGED wt    \* what git left in the clone is not used again
    /\ UNCHANGED <<runNo, input, remote, tags, hist>>

\* git rev-list origin/develop..HEAD --count: the commits of main that
\* develop lacks (the merge commit adds one; the script tests only > 0).
git_commits_ahead == remote.main.rev - remote.develop.main_rev

\* SyncNeeded with `and` for `or`.
SyncNeeded_Both(commits_ahead, all_changed) ==
    commits_ahead > 0 /\ all_changed # <<>>

\* Line 349.
SyncNeeded(commits_ahead, all_changed) ==
    commits_ahead > 0 \/ all_changed # <<>>

\* `fails`: git rev-list fails for a reason of the environment.
SnapshotBumpWith(r, commits_ahead, fails) ==
    /\ wt' = r.wt
    /\ fails => ~r.raised
    /\ faults' = IF fails THEN faults + 1 ELSE faults
    /\ run' = [run EXCEPT !.all_changed = r.all_changed,
                          !.new_pkg_version = r.new_pkg_version,
                          !.new_pom_version = r.new_pom_version,
                          !.commits_ahead = IF fails \/ r.raised THEN 0 ELSE commits_ahead,
                          !.faulted = @ \/ fails]
    /\ IF r.raised THEN Uncaught(<<>>, "Exception")
       ELSE IF fails THEN Uncaught(<<Bad("git rev-list")>>, "CalledProcessError")
       ELSE IF SyncNeeded(commits_ahead, r.all_changed)
       THEN /\ pc' = IF r.all_changed # <<>> THEN "CommitBump" ELSE "PushSync"
            /\ log' = Append(log, Cmd("git rev-list"))
            /\ UNCHANGED outcome
       ELSE /\ pc' = "Done"
            /\ log' = Append(log, Cmd("git rev-list"))
            /\ outcome' = [code |-> 0, error |-> "none", at |-> "none"]

\* Lines 342-349 and 370-373.
SnapshotBump ==
    /\ pc = "SnapshotBump"
    /\ \E fails \in {FALSE} \cup {f \in {TRUE} : CanFail} :
           SnapshotBumpWith(SnapshotPass(wt, run.pkg_files, run.pom_files,
                                         run.source_semver[1]),
                            git_commits_ahead, fails)
    /\ UNCHANGED <<runNo, input, remote, tags, hist>>

\* Line 352.
new_version_display ==
    IF Truthy(run.new_pkg_version) THEN run.new_pkg_version[1]
    ELSE run.new_pom_version[1]

\* Lines 350-353.
CommitBump ==
    /\ pc = "CommitBump"
    /\ \/ /\ log' = log \o <<Cmd("git add"), CmdArg("git commit", new_version_display)>>
          /\ pc' = "PushSync"
          /\ UNCHANGED <<faults, outcome, run>>
       \/ FaultIn(<<"git add", "git commit">>)
    /\ UNCHANGED <<runNo, input, remote, tags, wt, hist>>

\* Line 355.
PushSync ==
    /\ pc = "PushSync"
    /\ \/ /\ log' = Append(log, Cmd("git push origin sync"))
          /\ remote' = [remote EXCEPT !.sync = Some(wt)]
          /\ pc' = "CreatePR"
          /\ UNCHANGED <<faults, outcome, run>>
       \/ FaultIn(<<"git push origin sync">>) /\ UNCHANGED remote
    /\ UNCHANGED <<runNo, input, tags, wt, hist>>

\* Lines 357-362.
CreatePR ==
    /\ pc = "CreatePR"
    /\ \/ /\ log' = Append(log, Cmd("gh pr create"))
          /\ remote' = [remote EXCEPT !.prs =
                           @ \cup {[head |-> SyncBranch(run.source_semver[1]),
                                    state |-> "open"]}]
          /\ pc' = "MergePR"
          /\ UNCHANGED <<faults, outcome, run>>
       \/ FaultIn(<<"gh pr create">>) /\ UNCHANGED remote
    /\ UNCHANGED <<runNo, input, tags, wt, hist>>

\* Lines 364-373: gh pr merge --merge --admin --delete-branch.
MergePR ==
    /\ pc = "MergePR"
    /\ \/ /\ log' = Append(log, Cmd("gh pr merge"))
          /\ remote' = [remote EXCEPT
                           !.develop = [main_rev |-> remote.main.rev,
                                        tree |-> remote.sync[1]],
                           !.sync = None,
                           !.prs = {[head |-> SyncBranch(run.source_semver[1]),
                                     state |-> "merged"]}]
          /\ pc' = "Done"
          /\ outcome' = [code |-> 0, error |-> "none", at |-> "none"]
          /\ UNCHANGED <<faults, run>>
       \/ /\ CanFail
          /\ faults' = faults + 1
          /\ run' = [run EXCEPT !.faulted = TRUE]
          /\ Exit1(<<Bad("gh pr merge")>>, "PR merge failed")
          /\ UNCHANGED remote
    /\ UNCHANGED <<runNo, input, tags, wt, hist>>

(***************************************************************************)
(* The workflow is run again with the same inputs, on a fresh clone.       *)
(***************************************************************************)
Rerun ==
    /\ pc \in {"Done", "Failed"}
    /\ runNo < MaxRuns
    /\ runNo' = runNo + 1
    /\ pc' = "Start"
    /\ run' = [NoRun EXCEPT
                  !.rerun_of = IF pc = "Done" THEN "Done"
                               ELSE IF run.faulted THEN "Fault" ELSE "Failed",
                  !.release_at_start = (remote.releases # {})]
    /\ tags' = {}
    /\ wt' = remote.main.tree
    /\ log' = <<>>
    /\ outcome' = NoOutcome
    /\ UNCHANGED <<faults, input, remote, hist>>

Next ==
    \/ DetermineSource
    \/ GitSetup
    \/ ReleaseStrip
    \/ CommitTrunk
    \/ PushTrunk
    \/ CreateTag
    \/ PushTag
    \/ CreateRelease
    \/ CheckoutSync
    \/ MergeTrunk
    \/ SnapshotBump
    \/ CommitBump
    \/ PushSync
    \/ CreatePR
    \/ MergePR
    \/ Rerun

Spec == Init /\ [][Next]_vars


(***************************************************************************)
(* Properties of main() (checked under Spec)                               *)
(***************************************************************************)
Ran(c) == \E i \in 1..Len(log) : log[i].cmd = c /\ log[i].ok

RanBefore(c, i) == \E j \in 1..(i - 1) : log[j].cmd = c /\ log[j].ok

\* The commands that change the development line or its sync branch.
DevLineCmds ==
    {"git checkout -b sync origin/develop", "git merge origin/main",
     "git push origin sync", "gh pr create", "gh pr merge"}

StripChanged == run.changed_pkg \o run.changed_pom # <<>>

\* The trunk-line steps of this run are in the log before position i, in
\* program order.
TrunkLineDoneBefore(i) ==
    \E r \in 1..(i - 1) :
        /\ log[r] = Cmd("gh release create")
        /\ \E t \in 1..(r - 1) :
               /\ log[t] = Cmd("git push origin tag")
               /\ StripChanged => RanBefore("git push origin main", t)

\* C1: in every run, a command that changes the development line (creating
\* the sync branch, merging main into it, pushing it, creating or merging
\* the pull request) runs only after this run pushed the strip commit to
\* main (when the strip changed files), then pushed the tag, then created
\* the release; and the remote holds a sync branch or a pull request only
\* when it holds the release.
C1_TrunkBeforeDevLine ==
    /\ \A i \in 1..Len(log) :
           log[i].cmd \in DevLineCmds => TrunkLineDoneBefore(i)
    /\ pc \in {"CheckoutSync", "MergeTrunk", "SnapshotBump", "CommitBump",
               "PushSync", "CreatePR", "MergePR"}
           => TrunkLineDoneBefore(Len(log) + 1)
    /\ ~IsNone(remote.sync) \/ remote.prs # {} =>
           /\ remote.releases # {}
           /\ \E t \in remote.tags : t.name \in remote.releases

C1_Witness ==
    /\ pc = "Done"
    /\ runNo = 1
    /\ StripChanged
    /\ Ran("git push origin main")
    /\ Ran("gh pr merge")
    /\ remote.develop.main_rev = 2

\* A re-run, itself spared by the environment, of a run that a failing
\* command ended after the release was created.
RerunAfterRelease ==
    /\ runNo > 1
    /\ run.rerun_of = "Fault"
    /\ run.release_at_start
    /\ ~run.faulted

\* C2: a re-run with the same source branch of a run that a failing command
\* ended after the tag was pushed and the release was created, once the
\* cause of that failure is gone, does not fail: it goes on to Done.
C2_RerunConverges ==
    RerunAfterRelease => pc # "Failed"

\* The inputs that main() is to refuse.
InvalidInput ==
    \/ ~Truthy(SourceBranch(input))
    \/ IsNone(extract_version_from_branch(SourceBranch(input)[1]))
    \/ ~Truthy(input.token)

\* C4: when the source branch is missing or does not parse to a semver, or
\* the token is missing, no external command runs and nothing changes: the
\* command log stays empty, the clone and the remote stay as they were, and
\* the run ends in Failed with exit status 1.
C4_InputErrorNoMutation ==
    InvalidInput =>
        /\ log = <<>>
        /\ pc \in {"Start", "Failed"}
        /\ pc = "Failed" => outcome.code = 1 /\ outcome.at = "Start"
        /\ tags = {}
        /\ wt = remote.main.tree
        /\ remote.main.rev = 1
        /\ remote.releases = {} /\ IsNone(remote.sync) /\ remote.prs = {}
        /\ \A t \in remote.tags : t.rev = 0

C4_Witness ==
    /\ pc = "Failed"
    /\ IsNone(input.token)
    /\ run.source_semver = Some(V_120)
    /\ log = <<>>
    /\ outcome.code = 1

AllDigits(s) == Len(s) > 0 /\ \A i \in 1..Len(s) : IsDigit(s[i])

\* s is X.Y.Z with X, Y and Z non-empty digit strings.
IsTriple(s) ==
    \E i, j \in 1..Len(s) :
        /\ i < j
        /\ s[i] = "." /\ s[j] = "."
        /\ AllDigits(SubSeq(s, 1, i - 1))
        /\ AllDigits(SubSeq(s, i + 1, j - 1))
        /\ AllDigits(SubSeq(s, j + 1, Len(s)))

\* b is prefix followed by X.Y.Z and nothing else.
HasForm(prefix, b) ==
    /\ Len(b) > Len(prefix)
    /\ SubSeq(b, 1, Len(prefix)) = prefix
    /\ IsTriple(SubSeq(b, Len(prefix) + 1, Len(b)))

AfterPrefix(prefix, b) == SubSeq(b, Len(prefix) + 1, Len(b))

ChopNewline(b) ==
    IF Len(b) > 0 /\ b[Len(b)] = "\n" THEN SubSeq(b, 1, Len(b) - 1) ELSE b

Determined == pc # "Start" /\ Truthy(run.source_branch)

\* C5 as stated: the source branch is accepted exactly when it is
\* release/X.Y.Z or hotfix/X.Y.Z, with X.Y.Z as source semver; any other
\* name yields none and the run fails.
C5_ReleaseOrHotfix ==
    Determined =>
        IF HasForm(S_release_slash, run.source_branch[1])
        THEN run.source_semver = Some(AfterPrefix(S_release_slash, run.source_branch[1]))
        ELSE IF HasForm(S_hotfix_slash, run.source_branch[1])
        THEN run.source_semver = Some(AfterPrefix(S_hotfix_slash, run.source_branch[1]))
        ELSE IsNone(run.source_semver) /\ pc = "Failed"

\* C5: the source branch is accepted exactly when it is release/X.Y.Z (X, Y,
\* Z non-empty digit strings, nothing before, nothing after but for one
\* newline that ends the name), with X.Y.Z as source semver; every other
\* name, hotfix/X.Y.Z and feature/x included, yields none and the run
\* fails with exit status 1 before any command.
C5_ReleaseOnly ==
    Determined =>
        IF HasForm(S_release_slash, ChopNewline(run.source_branch[1]))
        THEN run.source_semver
                 = Some(AfterPrefix(S_release_slash, ChopNewline(run.source_branch[1])))
        ELSE /\ IsNone(run.source_semver)
             /\ pc = "Failed" /\ outcome.code = 1 /\ log = <<>>

C5_Witness ==
    /\ pc = "Failed"
    /\ run.source_branch = Some(B_hotfix)
    /\ IsNone(run.source_semver)
    /\ outcome.at = "Start"
    /\ ~IsNone(input.token)

\* The release creation of this run was refused because the release exists.
DuplicateRefused ==
    /\ pc = "Failed"
    /\ outcome.at = "CreateRelease"
    /\ Len(log) > 0 /\ log[Len(log)] = Bad("gh release create")
    /\ run.release_at_start
    /\ ~run.faulted

\* C8: when the release exists already, the run ends in Failed with an
\* error that no other failure produces, and no command of the development
\* line has run.
C8_DuplicateReleaseDistinct ==
    DuplicateRefused =>
        /\ outcome.error # "CalledProcessError"
        /\ \A i \in 1..Len(log) : log[i].cmd \notin DevLineCmds

MergeFailedAt(i) == log[i] = Bad("git merge origin/main")

\* C9: when the merge of main into the sync branch fails, the run ends at
\* once with exit status 1: the failed merge is the last command, the bump
\* pass has not run (it changed no file, named no version), nothing of the
\* sync branch reaches the remote and no pull request exists.
C9_MergeFailureStops ==
    \A i \in 1..Len(log) :
        MergeFailedAt(i) =>
            /\ i = Len(log)
            /\ pc = "Failed" /\ outcome.code = 1
            /\ wt = remote.develop.tree
            /\ run.all_changed = <<>>
            /\ IsNone(run.new_pkg_version) /\ IsNone(run.new_pom_version)
            /\ IsNone(remote.sync) /\ remote.prs = {}

C9_Witness ==
    /\ pc = "Failed"
    /\ outcome.error = "merge conflict"
    /\ Len(log) > 0 /\ MergeFailedAt(Len(log))
    /\ Ran("gh release create")
    /\ wt # remote.main.tree

\* The bump commit: a commit made after the merge.
BumpCommitted ==
    \E i, j \in 1..Len(log) :
        /\ i < j
        /\ log[i].cmd = "git merge origin/main"
        /\ log[j].cmd = "git commit" /\ log[j].ok

SyncCondition == run.commits_ahead > 0 \/ run.all_changed # <<>>

\* C10: the pull request is created, right after the push of the sync
\* branch, and merged right after its creation, if and only if the sync
\* branch had commits that origin/develop lacks or the bump pass changed a
\* file; the bump commit is made exactly when the bump pass changed files;
\* when neither holds the run succeeds with no push and no pull request.
C10_PublishIff ==
    /\ \A i \in 1..Len(log) :
           /\ log[i].cmd = "git push origin sync" /\ log[i].ok => SyncCondition
           /\ log[i].cmd = "gh pr create" =>
                  SyncCondition /\ i > 1 /\ log[i - 1] = Cmd("git push origin sync")
           /\ log[i].cmd = "gh pr merge" =>
                  SyncCondition /\ i > 1 /\ log[i - 1] = Cmd("gh pr create")
    /\ BumpCommitted => run.all_changed # <<>>
    /\ pc \in {"PushSync", "CreatePR", "MergePR"} =>
           /\ SyncCondition
           /\ BumpCommitted <=> run.all_changed # <<>>
    /\ pc = "Done" =>
           /\ outcome.code = 0
           /\ SyncCondition <=> Ran("gh pr merge")
           /\ BumpCommitted <=> run.all_changed # <<>>
           /\ ~SyncCondition =>
                  \A i \in 1..Len(log) :
                      RanBefore("git merge origin/main", i) =>
                          log[i].cmd \notin {"git commit", "git push origin sync",
                                             "gh pr create", "gh pr merge"}

C10_Witness ==
    /\ pc = "Done"
    /\ run.commits_ahead > 0
    /\ run.all_changed = <<>>
    /\ ~BumpCommitted
    /\ Ran("git push origin sync")
    /\ Ran("gh pr merge")

\* The run with nothing to synchronise.
C10_NothingToSync ==
    /\ pc = "Done"
    /\ ~SyncCondition
    /\ ~Ran("git push origin sync")


\* The bump pass of this run is over (it returned or raised).
BumpPassOver ==
    /\ \E i \in 1..Len(log) : log[i].cmd = "git merge origin/main" /\ log[i].ok
    /\ pc # "SnapshotBump"

\* The paths the bump pass was given.
AddressedPaths ==
    {run.pkg_files[i] : i \in 1..Len(run.pkg_files)}
    \cup {run.pom_files[i] : i \in 1..Len(run.pom_files)}

\* C13: the bump pass addresses exactly the descriptors of the sync branch
\* after the merge: every package.json and pom.xml that exists there, and
\* no path that does not exist there.
C13_BumpCoversSyncBranch ==
    BumpPassOver =>
        \A p \in {"package.json", "pom.xml"} : Exists(wt, p) <=> p \in AddressedPaths


\* Where the run is, or was when it failed.
At == IF pc = "Failed" THEN outcome.at ELSE pc

\* The commit of the strip: a commit made with no merge before it.
TrunkCommitted ==
    \E i \in 1..Len(log) :
        /\ log[i].cmd = "git commit" /\ log[i].ok
        /\ ~RanBefore("git merge origin/main", i)

\* C15: the run commits and pushes to main exactly when the Strip pass
\* reported a changed file (the push right after the commit); when it
\* reported none, the run makes no commit and no push to main and goes on
\* to the tag and the release: the strip itself never ends the run.
C15_CommitIffChanged ==
    /\ At \in {"CommitTrunk", "PushTrunk"} => StripChanged
    /\ At \notin {"Start", "GitSetup", "ReleaseStrip", "CommitTrunk", "PushTrunk"} =>
           /\ StripChanged <=> TrunkCommitted
           /\ StripChanged <=> Ran("git push origin main")
    /\ TrunkCommitted => StripChanged
    /\ \A i \in 1..Len(log) :
           log[i].cmd = "git push origin main" =>
               /\ StripChanged
               /\ i > 1 /\ log[i - 1] = CmdArg("git commit", run.source_semver[1])
    /\ pc = "Failed" => outcome.at # "ReleaseStrip"
    /\ Ran("git tag") \/ Ran("gh release create") =>
           (StripChanged <=> Ran("git push origin main"))

\* The strip changed nothing and the release was created.
C15_Witness ==
    /\ runNo = 1
    /\ ~StripChanged
    /\ Ran("git tag")
    /\ Ran("git push origin tag")
    /\ Ran("gh release create")
    /\ ~TrunkCommitted
    /\ ~Ran("git push origin main")


Stopped(i) == i = Len(log) /\ pc = "Failed" /\ outcome.code = 1

\* C16: when git tag fails because the tag exists locally the run goes on:
\* the next commands are the push of the tag and then the creation of the
\* release; when the push of the tag or the creation of the release fails,
\* it is the last command of the run, which ends with exit status 1.
C16_TagFailureTolerated ==
    \A i \in 1..Len(log) :
        /\ log[i] = Bad("git tag") =>
               /\ HasTag(tags, TagName(run.source_semver[1]))
               /\ IF i = Len(log) THEN pc = "PushTag"
                  ELSE log[i + 1].cmd = "git push origin tag"
               /\ i + 1 < Len(log) => log[i + 2].cmd = "gh release create"
               /\ i + 1 = Len(log) /\ log[i + 1].ok => pc = "CreateRelease"
        /\ log[i] = Bad("git push origin tag") => Stopped(i)
        /\ log[i] = Bad("gh release create") => Stopped(i)

\* The tag existed, and the release was created all the same.
C16_Witness ==
    /\ runNo = 1
    /\ \E i \in 1..(Len(log) - 2) :
           /\ log[i] = Bad("git tag")
           /\ log[i + 1] = Cmd("git push origin tag")
           /\ log[i + 2] = Cmd("gh release create")


\* C17: once the release is created, the tag v<semver> of the remote points
\* at the head of main this run worked on (the commit of its strip, or the
\* head it pulled when the strip changed nothing), also when git tag was
\* skipped because the tag existed.
C17_TagAtStripHead ==
    Ran("gh release create") =>
        /\ run.head = remote.main.rev
        /\ \E t \in remote.tags : t.name = TagName(run.source_semver[1])
        /\ \A t \in remote.tags :
               t.name = TagName(run.source_semver[1]) => t.rev = run.head

\* The version texts of the descriptors of the working tree.
VersionTexts ==
    {FlatText(wt[p]) : p \in {q \in DOMAIN wt : IsFlat(wt[q])}}
    \cup
    UNION {{ElemText(wt[p].nodes[i]) : i \in 1..Len(wt[p].nodes)} :
           p \in {q \in DOMAIN wt : IsTree(wt[q])}}

\* C18: the version named by the message of the bump commit is a text the
\* bump pass wrote: some descriptor of the sync branch holds it.
C18_MessageNamesWrittenVersion ==
    \A i \in 1..Len(log) :
        /\ log[i].cmd = "git commit" /\ log[i].ok
        /\ RanBefore("git merge origin/main", i)
        => log[i].arg[1] \in VersionTexts


(***************************************************************************)
(* Properties of split_version_str (checked under SpecSplit)               *)
(***************************************************************************)
\* A digits.digits.digits triple starts at position i of raw.
TripleStartsAt(raw, i) == \E j \in i..Len(raw) : IsTriple(SubSeq(raw, i, j))

ContainsTriple(raw) == \E i \in 1..Len(raw) : TripleStartsAt(raw, i)

\* C20: split_version_str(raw) is none exactly when raw contains no
\* digits.digits.digits triple; otherwise it is (prefix, semver, suffix)
\* with prefix + semver + suffix = raw, semver a triple, no triple starting
\* anywhere in the prefix (semver is the leftmost one), and semver not cut
\* short: the suffix does not begin with a digit.
C20_SplitLeftmostTriple ==
    \A k \in 1..Len(hist) :
        hist[k].mode = "split" =>
            IF ~ContainsTriple(hist[k].raw) THEN IsNone(hist[k].parts)
            ELSE /\ Len(hist[k].parts) = 3
                 /\ hist[k].parts[1] \o hist[k].parts[2] \o hist[k].parts[3] = hist[k].raw
                 /\ IsTriple(hist[k].parts[2])
                 /\ \A i \in 1..Len(hist[k].parts[1]) : ~TripleStartsAt(hist[k].raw, i)
                 /\ Len(hist[k].parts[3]) > 0 => ~IsDigit(hist[k].parts[3][1])

\* a11.1.11: a triple starts at the second character and another one at
\* the third; the one at the second is taken, to its last digit.
C20_Witness ==
    /\ Len(hist) = 1
    /\ hist[1].mode = "split"
    /\ hist[1].raw = <<"a", "1", "1", ".", "1", ".", "1", "1">>
    /\ hist[1].parts = <<<<"a">>, <<"1", "1", ".", "1", ".", "1", "1">>, <<>>>>
    /\ TripleStartsAt(hist[1].raw, 3)

=============================================================================
